---- MODULE Spec2Model ----
(***************************************************************************)
(* Model of robarm.py: the XArm servo bus driver (servo table, addressing, *)
(* clipping, Move / PowerOff / Read packets) over a byte transport.        *)
(*                                                                         *)
(* Python values are modelled as tagged records: PyInt(n), PyStr(s) with s *)
(* a sequence of one-character strings, PyNone for any other type.         *)
(* A call ends either by returning ("none" raised) or by raising:          *)
(*   "SystemExit"     sys.exit(1) after printing an ERROR line             *)
(*   "ValueError"     int() of a string with no digits                     *)
(*   "IndexError"     indexing a reply past its end                        *)
(*   "AssertionError" the assert in read_pos                               *)
(*   "HIDException"   the transport's write() failed                       *)
(*   "TypeError"      comparing a position that is neither int nor str     *)
(* Nothing in the program catches these, so a raising call is the last.    *)
(***************************************************************************)
EXTENDS Integers, Sequences, FiniteSets, TLC

VARIABLES
    servoinfo,  \* XArm.servoinfo: index 0..5 -> descriptor with tracked 'pos'
    log,        \* transport events (write/read) of the most recent call
    ret,        \* integers of the value returned by the most recent call, in
                \* order (<<>> for None)
    last,       \* the most recent call: operation, arguments, what it raised
    prev,       \* servoinfo as it was when the most recent call started
    trip,       \* progress of a moveRel(+d); moveRel(-d) pair on one servo
    calls       \* number of calls made so far

vars == <<servoinfo, log, ret, last, prev, trip, calls>>

----------------------------------------------------------------------------
(* Bounds *)

MaxCalls == 3       \* calls per run of the driver specification
MaxProbe == 1       \* calls per run of the single-call specifications

----------------------------------------------------------------------------
(* Python values *)

PyInt(n) == [kind |-> "int", n |-> n, s |-> <<>>]
PyStr(s) == [kind |-> "str", n |-> 0, s |-> s]
PyNone == [kind |-> "none", n |-> 0, s |-> <<>>]

Digits == {"0", "1", "2", "3", "4", "5", "6", "7", "8", "9"}

DigitVal(c) ==
    CASE c = "0" -> 0 [] c = "1" -> 1 [] c = "2" -> 2 [] c = "3" -> 3
      [] c = "4" -> 4 [] c = "5" -> 5 [] c = "6" -> 6 [] c = "7" -> 7
      [] c = "8" -> 8 [] c = "9" -> 9

AllDigits(s) == \A i \in 1..Len(s) : s[i] \in Digits

Front(s) == SubSeq(s, 1, Len(s) - 1)

\* re.match('^[0-9]*$', s): only digits, possibly none; '$' also matches
\* just before one trailing newline.
reMatchDigits(s) ==
    \/ AllDigits(s)
    \/ Len(s) > 0 /\ s[Len(s)] = "\n" /\ AllDigits(Front(s))

\* int(s) strips surrounding whitespace, then needs at least one digit.
strip(s) == IF Len(s) > 0 /\ s[Len(s)] = "\n" THEN Front(s) ELSE s

RECURSIVE digitsValue(_)
digitsValue(s) ==
    IF s = <<>> THEN 0 ELSE 10 * digitsValue(Front(s)) + DigitVal(s[Len(s)])

intRaises(s) == strip(s) = <<>>

int(s) == digitsValue(strip(s))

----------------------------------------------------------------------------
(* The servo table *)

sn == [i \in 0..5 |->
        CASE i = 0 -> <<"c", "l", "a", "w">>
          [] i = 1 -> <<"w", "r", "i", "s", "t", "r", "o", "l", "l">>
          [] i = 2 -> <<"w", "r", "i", "s", "t", "p", "i", "t", "c", "h">>
          [] i = 3 -> <<"e", "l", "b", "o", "w">>
          [] i = 4 -> <<"s", "h", "o", "u", "l", "d", "e", "r">>
          [] i = 5 -> <<"b", "a", "s", "e">>]

Descriptor(id, min, mid, max) ==
    [id |-> id, name |-> sn[id - 1], min |-> min, mid |-> mid, max |-> max,
     pos |-> -1]

servoinfo0 == [i \in 0..5 |->
        CASE i = 0 -> Descriptor(1, 1310, 1500, 2500)
          [] i = 1 -> Descriptor(2, 400, 1430, 2600)
          [] i = 2 -> Descriptor(3, 500, 1500, 2500)
          [] i = 3 -> Descriptor(4, 400, 1670, 2600)
          [] i = 4 -> Descriptor(5, 400, 1480, 2600)
          [] i = 5 -> Descriptor(6, 400, 1570, 2600)]

----------------------------------------------------------------------------
(* The machine a method runs on: the table, the transport and the outcome. *)
(* quota is the number of writes the transport accepts before write()      *)
(* raises; reply is what the transport's read() returns.                   *)

Machine(si, quota, reply) ==
    [si |-> si, log |-> <<>>, quota |-> quota, reply |-> reply,
     exc |-> "none", ret |-> <<>>]

raise(m, e) == [m EXCEPT !.exc = e]

devWrite(m, data) ==
    IF m.exc # "none" THEN m
    ELSE IF m.quota = 0 THEN raise(m, "HIDException")
    ELSE [m EXCEPT !.log = Append(@, [ev |-> "write", data |-> data]),
                   !.quota = @ - 1]

devRead(m) ==
    IF m.exc # "none" THEN m
    ELSE [m EXCEPT !.log = Append(@, [ev |-> "read", data |-> m.reply])]

----------------------------------------------------------------------------
(* XArm methods *)

\* __init__: exits when no device is found, else opens the first one. The
\* servoinfo list is an attribute of the class, so the new instance has the
\* table as the instances before it left it.
construct(m, found) ==
    IF found THEN m ELSE raise(m, "SystemExit")

\* itos with the two bytes in the other order
itosSwapped(v) == [lsb |-> v \div 256, msb |-> v % 256]

itos(v) == [lsb |-> v % 256, msb |-> v \div 256]

\* index of the first entry of sn equal to name
snIndex(name) == CHOOSE i \in 0..5 : sn[i] = name /\ \A j \in 0..(i - 1) : sn[j] # name

\* servoIndex that subtracts 1 from a name's list index as it does from an id
servoIndexNameMinusOne(id) ==
    IF id.kind = "str" /\ reMatchDigits(id.s) /\ intRaises(id.s)
    THEN [exc |-> "ValueError", s |-> -1]
    ELSE LET s == IF id.kind = "str"
                  THEN IF reMatchDigits(id.s) THEN int(id.s) - 1
                       ELSE IF \E i \in 0..5 : sn[i] = id.s THEN snIndex(id.s) - 1
                       ELSE -1
                  ELSE IF id.kind = "int" THEN id.n - 1
                  ELSE -1
         IN  IF s < 0 \/ s >= 6
             THEN [exc |-> "SystemExit", s |-> s]
             ELSE [exc |-> "none", s |-> s]

servoIndex(id) ==
    IF id.kind = "str" /\ reMatchDigits(id.s) /\ intRaises(id.s)
    THEN [exc |-> "ValueError", s |-> -1]
    ELSE LET s == IF id.kind = "str"
                  THEN IF reMatchDigits(id.s) THEN int(id.s) - 1
                       ELSE IF \E i \in 0..5 : sn[i] = id.s THEN snIndex(id.s)
                       ELSE -1
                  ELSE IF id.kind = "int" THEN id.n - 1
                  ELSE -1
         IN  IF s < 0 \/ s >= 6
             THEN [exc |-> "SystemExit", s |-> s]
             ELSE [exc |-> "none", s |-> s]

\* returns the descriptor itself
servoInfo(m, id) ==
    LET r == servoIndex(id) IN
    IF r.exc # "none" THEN raise(m, r.exc)
    ELSE [m EXCEPT !.ret = <<m.si[r.s]>>]

\* clipPos without the upper bound
clipPosNoMax(info, pos) ==
    IF pos < info.min THEN info.min ELSE pos

clipPos(info, pos) ==
    IF pos < info.min THEN info.min
    ELSE IF pos > info.max THEN info.max
    ELSE pos

MovePacket(time, id, pos) ==
    <<85, 85, 8, 3, 1, itos(time).lsb, itos(time).msb, id,
      itos(pos).lsb, itos(pos).msb>>

Landmarks == {<<"m", "i", "n">>, <<"m", "i", "d">>, <<"m", "a", "x">>}

landmark(info, tok) ==
    IF tok = <<"m", "i", "n">> THEN info.min
    ELSE IF tok = <<"m", "i", "d">> THEN info.mid
    ELSE info.max

\* lines 99-106 of moveTo: the position argument as an integer, or what
\* the conversion raises
position(info, pos) ==
    IF pos.kind = "str"
    THEN IF pos.s \in Landmarks THEN [exc |-> "none", v |-> landmark(info, pos.s)]
         ELSE IF reMatchDigits(pos.s)
              THEN IF intRaises(pos.s) THEN [exc |-> "ValueError", v |-> 0]
                   ELSE [exc |-> "none", v |-> int(pos.s)]
              ELSE [exc |-> "SystemExit", v |-> 0]
    ELSE IF pos.kind = "int" THEN [exc |-> "none", v |-> pos.n]
    ELSE [exc |-> "TypeError", v |-> 0]

\* moveTo that keeps the commanded position in 'mid' as well as in 'pos'
moveToMovesMid(m, id, pos, time) ==
    IF m.exc # "none" THEN m
    ELSE LET r == servoIndex(id) IN
         IF r.exc # "none" THEN raise(m, r.exc)
         ELSE LET s == m.si[r.s]
                  p == position(s, pos)
              IN  IF p.exc # "none" THEN raise(m, p.exc)
                  ELSE LET c == clipPos(s, p.v)
                           m1 == [m EXCEPT !.si[r.s].pos = c, !.si[r.s].mid = c]
                       IN  devWrite(m1, MovePacket(time, s.id, c))

\* moveTo that tracks the requested position and clips only what it sends
moveToTracksRequest(m, id, pos, time) ==
    IF m.exc # "none" THEN m
    ELSE LET r == servoIndex(id) IN
         IF r.exc # "none" THEN raise(m, r.exc)
         ELSE LET s == m.si[r.s]
                  p == position(s, pos)
              IN  IF p.exc # "none" THEN raise(m, p.exc)
                  ELSE LET c == clipPos(s, p.v)
                           m1 == [m EXCEPT !.si[r.s].pos = p.v]
                       IN  devWrite(m1, MovePacket(time, s.id, c))

moveTo(m, id, pos, time) ==
    IF m.exc # "none" THEN m
    ELSE LET r == servoIndex(id) IN
         IF r.exc # "none" THEN raise(m, r.exc)
         ELSE LET s == m.si[r.s]
                  p == position(s, pos)
              IN  IF p.exc # "none" THEN raise(m, p.exc)
                  ELSE LET c == clipPos(s, p.v)
                           m1 == [m EXCEPT !.si[r.s].pos = c]
                       IN  devWrite(m1, MovePacket(time, s.id, c))

\* moveRel that reports an Unknown servo the way the other validations do
moveRelExitsOnUnknown(m, id, dpos, time) ==
    IF m.exc # "none" THEN m
    ELSE LET r == servoIndex(id) IN
         IF r.exc # "none" THEN raise(m, r.exc)
         ELSE LET s == m.si[r.s] IN
              IF s.pos < 0 THEN raise(m, "SystemExit")
              ELSE LET c == clipPos(s, s.pos + dpos)
                       m1 == [m EXCEPT !.si[r.s].pos = c]
                   IN  devWrite(m1, MovePacket(time, s.id, c))

\* moveRel without the test for the -1 sentinel
moveRelNoGuard(m, id, dpos, time) ==
    IF m.exc # "none" THEN m
    ELSE LET r == servoIndex(id) IN
         IF r.exc # "none" THEN raise(m, r.exc)
         ELSE LET s == m.si[r.s]
                  c == clipPos(s, s.pos + dpos)
                  m1 == [m EXCEPT !.si[r.s].pos = c]
              IN  devWrite(m1, MovePacket(time, s.id, c))

\* moveRel that sends nothing when the clipped position is the tracked one
moveRelSkipsUnchanged(m, id, dpos, time) ==
    IF m.exc # "none" THEN m
    ELSE LET r == servoIndex(id) IN
         IF r.exc # "none" THEN raise(m, r.exc)
         ELSE LET s == m.si[r.s] IN
              IF s.pos < 0 THEN m
              ELSE LET c == clipPos(s, s.pos + dpos)
                       m1 == [m EXCEPT !.si[r.s].pos = c]
                   IN  IF c = s.pos THEN m
                       ELSE devWrite(m1, MovePacket(time, s.id, c))

\* moveRel that adds the delta to 'mid' instead of 'pos'
moveRelFromMid(m, id, dpos, time) ==
    IF m.exc # "none" THEN m
    ELSE LET r == servoIndex(id) IN
         IF r.exc # "none" THEN raise(m, r.exc)
         ELSE LET s == m.si[r.s] IN
              IF s.pos < 0 THEN m
              ELSE LET c == clipPos(s, s.mid + dpos)
                       m1 == [m EXCEPT !.si[r.s].pos = c]
                   IN  devWrite(m1, MovePacket(time, s.id, c))

moveRel(m, id, dpos, time) ==
    IF m.exc # "none" THEN m
    ELSE LET r == servoIndex(id) IN
         IF r.exc # "none" THEN raise(m, r.exc)
         ELSE LET s == m.si[r.s] IN
              IF s.pos < 0 THEN m
              ELSE LET c == clipPos(s, s.pos + dpos)
                       m1 == [m EXCEPT !.si[r.s].pos = c]
                   IN  devWrite(m1, MovePacket(time, s.id, c))

RECURSIVE moveAllFrom(_, _, _, _)
moveAllFrom(m, i, poss, time) ==
    IF i >= 6 THEN m
    ELSE moveAllFrom(moveTo(m, PyInt(i + 1), poss[i + 1], time), i + 1, poss, time)

RECURSIVE moveAllDownFrom(_, _, _, _)
moveAllDownFrom(m, i, poss, time) ==
    IF i < 0 THEN m
    ELSE moveAllDownFrom(moveTo(m, PyInt(i + 1), poss[i + 1], time), i - 1, poss, time)

\* move_all that walks the servos from 6 down to 1
move_allDescending(m, poss, time) == moveAllDownFrom(m, 5, poss, time)

\* poss is the Python list as a sequence: poss[i] of the code is poss[i + 1]
move_all(m, poss, time) == moveAllFrom(m, 0, poss, time)

PowerOffPacket == <<85, 85, 9, 20, 6, 1, 2, 3, 4, 5, 6>>

servos_off(m) == devWrite(m, PowerOffPacket)

RestTime == 1500

\* rest that powers the servos off before moving them
restOffFirst(m) ==
    move_all(servos_off(m), [i \in 1..6 |-> PyInt(m.si[i - 1].mid)], RestTime)

\* the time.sleep(2) between the moves and the power-off touches neither
\* the table nor the transport
rest(m) ==
    servos_off(move_all(m, [i \in 1..6 |-> PyInt(m.si[i - 1].mid)], RestTime))

ReadPosPacket == <<85, 85, 9, 21, 6, 1, 2, 3, 4, 5, 6>>

\* read_pos that also stores the reported positions as the tracked ones
read_posRefreshes(m) ==
    LET m1 == devRead(devWrite(m, ReadPosPacket))
        r == m1.reply
    IN  IF m1.exc # "none" THEN m1
        ELSE IF Len(r) < 5 THEN raise(m1, "IndexError")
        ELSE IF r[5] # 6 THEN raise(m1, "AssertionError")
        ELSE IF Len(r) < 23 THEN raise(m1, "IndexError")
        ELSE LET poss == [i \in 1..6 |->
                            r[5 + 3 * (i - 1) + 3] * 256 + r[5 + 3 * (i - 1) + 2]]
             IN  [m1 EXCEPT !.ret = poss,
                            !.si = [k \in 0..5 |-> [m1.si[k] EXCEPT !.pos = poss[k + 1]]]]

\* read_pos that takes the first byte after the id as the high byte
read_posSwapped(m) ==
    LET m1 == devRead(devWrite(m, ReadPosPacket))
        r == m1.reply
    IN  IF m1.exc # "none" THEN m1
        ELSE IF Len(r) < 5 THEN raise(m1, "IndexError")
        ELSE IF r[5] # 6 THEN raise(m1, "AssertionError")
        ELSE IF Len(r) < 23 THEN raise(m1, "IndexError")
        ELSE [m1 EXCEPT !.ret = [i \in 1..6 |->
                                   r[5 + 3 * (i - 1) + 2] * 256 + r[5 + 3 * (i - 1) + 3]]]

read_pos(m) ==
    LET m1 == devRead(devWrite(m, ReadPosPacket))
        r == m1.reply
    IN  IF m1.exc # "none" THEN m1
        ELSE IF Len(r) < 5 THEN raise(m1, "IndexError")
        ELSE IF r[5] # 6 THEN raise(m1, "AssertionError")
        ELSE IF Len(r) < 23 THEN raise(m1, "IndexError")
        ELSE [m1 EXCEPT !.ret = [i \in 1..6 |->
                                   r[5 + 3 * (i - 1) + 3] * 256 + r[5 + 3 * (i - 1) + 2]]]

BatteryPacket == <<85, 85, 2, 15>>

\* getBattery without the try/except around struct.unpack
getBatteryNoExcept(m) ==
    LET m1 == devRead(devWrite(m, BatteryPacket))
        r == m1.reply
    IN  IF m1.exc # "none" THEN m1
        ELSE IF Len(r) < 6 THEN raise(m1, "struct.error")
        ELSE [m1 EXCEPT !.ret = <<r[5] + 256 * r[6]>>]

\* struct.unpack('H', ret[4:6]) raises unless the slice has two bytes; the
\* bare except turns that into -1. 'H' is read low byte first, the order
\* of the hosts the arm is driven from.
getBattery(m) ==
    LET m1 == devRead(devWrite(m, BatteryPacket))
        r == m1.reply
    IN  IF m1.exc # "none" THEN m1
        ELSE IF Len(r) < 6 THEN [m1 EXCEPT !.ret = <<-1>>]
        ELSE [m1 EXCEPT !.ret = <<r[5] + 256 * r[6]>>]

----------------------------------------------------------------------------
(* Strings used as inputs *)

elbow == <<"e", "l", "b", "o", "w">>
mid == <<"m", "i", "d">>

(* Inputs of the driver specification *)

Refs == {PyInt(1), PyInt(3), PyStr(<<"6">>), PyStr(elbow), PyInt(7)}
Positions == {PyInt(0), PyInt(1400), PyInt(2550), PyInt(65535), PyStr(mid)}
Times == {0, 500}
Deltas == {-50, 50, -3000, 3000}
RelTimes == {100}
PosLists == {[i \in 1..6 |-> PyInt(1400)],
             <<PyInt(0), PyInt(65535), PyInt(2550), PyInt(300), PyInt(2600), PyInt(1234)>>,
             <<PyInt(1310), PyInt(2600), PyInt(500), PyInt(1670), PyInt(399), PyInt(2601)>>}

\* a ReadPositions reply: header, count, then (id, lo, hi) per position
RECURSIVE groups(_, _)
groups(ps, i) ==
    IF i > Len(ps) THEN <<>>
    ELSE <<i, ps[i] % 256, ps[i] \div 256>> \o groups(ps, i + 1)

posReply(count, ps) == <<85, 85, 21, 21, count>> \o groups(ps, 1)

PosReplies == {posReply(6, <<1500, 0, 65535, 255, 256, 2600>>),
               posReply(5, <<1500, 0, 65535, 255, 256>>),
               posReply(7, <<1500, 0, 65535, 255, 256, 2600>>),
               posReply(6, <<1500, 0, 65535>>),
               <<>>}
BatReplies == {<<85, 85, 4, 15, 136, 28>>, <<85, 85, 4, 15, 136>>, <<>>}

\* writes the transport accepts before write() raises; 7 covers any call
Quotas == {0, 7}
ListQuotas == {0, 3, 7}

----------------------------------------------------------------------------
(* State after construction: every tracked position is the -1 sentinel, no *)
(* call made yet.                                                          *)

NoTrip == [n |-> 0, s |-> 0, p |-> 0, d |-> 0]

Init ==
    /\ servoinfo = servoinfo0
    /\ log = <<>>
    /\ ret = <<>>
    /\ last = [op |-> "init", id |-> PyNone, pos |-> PyNone, poss |-> <<>>,
               dpos |-> 0, time |-> 0, quota |-> 0, exc |-> "none"]
    /\ prev = servoinfo0
    /\ trip = NoTrip
    /\ calls = 0

\* an unclipped moveRel of a Known servo starts a trip (n = 1); the
\* opposite moveRel of the same servo as the very next call completes it
tripAfter(op, id, dpos, m) ==
    LET r == servoIndex(id) IN
    IF op = "moveRel" /\ m.exc = "none" /\ r.exc = "none"
    THEN LET s == servoinfo[r.s] IN
         IF s.pos >= 0 /\ s.min <= s.pos + dpos /\ s.pos + dpos <= s.max
         THEN IF trip.n = 1 /\ trip.s = r.s /\ dpos = -trip.d
              THEN [n |-> 2, s |-> r.s, p |-> trip.p, d |-> dpos]
              ELSE [n |-> 1, s |-> r.s, p |-> s.pos, d |-> dpos]
         ELSE NoTrip
    ELSE NoTrip

\* one call of a method by the program: allowed while the process is alive
Call(bound, op, id, pos, poss, dpos, time, quota, m) ==
    /\ last.exc = "none"
    /\ calls < bound
    /\ servoinfo' = m.si
    /\ log' = m.log
    /\ ret' = m.ret
    /\ last' = [op |-> op, id |-> id, pos |-> pos, poss |-> poss, dpos |-> dpos,
                time |-> time, quota |-> quota, exc |-> m.exc]
    /\ prev' = servoinfo
    /\ trip' = tripAfter(op, id, dpos, m)
    /\ calls' = calls + 1

MoveToCall(bound, refs, positions, times, quotas) ==
    \E id \in refs, pos \in positions, time \in times, q \in quotas :
        Call(bound, "moveTo", id, pos, <<>>, 0, time, q,
             moveTo(Machine(servoinfo, q, <<>>), id, pos, time))

MoveRelCall(bound, refs, deltas, times, quotas) ==
    \E id \in refs, dpos \in deltas, time \in times, q \in quotas :
        Call(bound, "moveRel", id, PyNone, <<>>, dpos, time, q,
             moveRel(Machine(servoinfo, q, <<>>), id, dpos, time))

MoveTo == MoveToCall(MaxCalls, Refs, Positions, Times, Quotas)

MoveRel == MoveRelCall(MaxCalls, Refs, Deltas, RelTimes, Quotas)

MoveAll ==
    \E poss \in PosLists, time \in Times, q \in ListQuotas :
        Call(MaxCalls, "move_all", PyNone, PyNone, poss, 0, time, q,
             move_all(Machine(servoinfo, q, <<>>), poss, time))

Rest ==
    \E q \in ListQuotas :
        Call(MaxCalls, "rest", PyNone, PyNone, <<>>, 0, 0, q,
             rest(Machine(servoinfo, q, <<>>)))

ServosOff ==
    \E q \in Quotas :
        Call(MaxCalls, "servos_off", PyNone, PyNone, <<>>, 0, 0, q,
             servos_off(Machine(servoinfo, q, <<>>)))

ReadPos ==
    \E reply \in PosReplies, q \in Quotas :
        Call(MaxCalls, "read_pos", PyNone, PyNone, <<>>, 0, 0, q,
             read_pos(Machine(servoinfo, q, reply)))

GetBattery ==
    \E reply \in BatReplies, q \in Quotas :
        Call(MaxCalls, "getBattery", PyNone, PyNone, <<>>, 0, 0, q,
             getBattery(Machine(servoinfo, q, reply)))

\* a further XArm(...) in the same process
Construct ==
    \E found \in BOOLEAN :
        Call(MaxCalls, "__init__", PyNone, PyNone, <<>>, 0, 0, 0,
             construct(Machine(servoinfo, 0, <<>>), found))

Next ==
    \/ Construct
    \/ MoveTo
    \/ MoveRel
    \/ MoveAll
    \/ Rest
    \/ ServosOff
    \/ ReadPos
    \/ GetBattery

Spec == Init /\ [][Next]_vars

----------------------------------------------------------------------------
(* Single-call specification of servo addressing: one call with a servo    *)
(* reference of every form, valid and invalid.                             *)

IdRefs == {PyInt(n) : n \in 0..7}
DigitRefs == {PyStr(<<c>>) : c \in {"0", "1", "2", "3", "4", "5", "6", "7"}}
              \cup {PyStr(<<"0", "3">>), PyStr(<<"1", "0">>), PyStr(<<>>),
                    PyStr(<<"3", "\n">>), PyStr(<<"\n">>)}
NameRefs == {PyStr(sn[i]) : i \in 0..5}
            \cup {PyStr(<<"b", "o", "g", "u", "s">>), PyStr(<<"E", "l", "b", "o", "w">>),
                  PyStr(<<"e", "l", "b", "o">>), PyStr(<<"3", "a">>)}
AllRefs == IdRefs \cup DigitRefs \cup NameRefs \cup {PyNone}

ResolveServoInfo ==
    \E id \in AllRefs :
        Call(MaxProbe, "servoInfo", id, PyNone, <<>>, 0, 0, 7,
             servoInfo(Machine(servoinfo, 7, <<>>), id))

ResolveMoveTo == MoveToCall(MaxProbe, AllRefs, {PyInt(1500), PyStr(mid)}, {0}, {7})

ResolveMoveRel == MoveRelCall(MaxProbe, AllRefs, {50}, RelTimes, {7})

NextResolve ==
    \/ ResolveServoInfo
    \/ ResolveMoveTo
    \/ ResolveMoveRel

SpecResolve == Init /\ [][NextResolve]_vars

----------------------------------------------------------------------------
(* Single-call specification of the Move packet encoding: moveTo of every  *)
(* servo id with durations and positions across the 16-bit range.          *)

EncodeIds == {PyInt(n) : n \in 1..6}
EncodeTimes == {0, 1, 255, 256, 500, 1500, 65535}
EncodePositions == {PyInt(n) : n \in {0, 399, 400, 511, 512, 1500, 2500, 2600, 2601, 65535}}

EncodeMoveTo == MoveToCall(MaxProbe, EncodeIds, EncodePositions, EncodeTimes, {7})

NextEncode == EncodeMoveTo

SpecEncode == Init /\ [][NextEncode]_vars

----------------------------------------------------------------------------
(* Single-call specification of the reply decoders: read_pos and           *)
(* getBattery on replies of every length, with every count byte, with      *)
(* positions and voltages across the 16-bit range.                         *)

\* a reply with the given count byte and (id, lo, hi) groups for ids and ps
RECURSIVE idGroups(_, _, _)
idGroups(ids, ps, i) ==
    IF i > Len(ps) THEN <<>>
    ELSE <<ids[i], ps[i] % 256, ps[i] \div 256>> \o idGroups(ids, ps, i + 1)

\* the first n bytes of r, padded with zeros when r is shorter
truncated(r, n) == [k \in 1..n |-> IF k <= Len(r) THEN r[k] ELSE 0]

DecodeCounts == {0, 5, 6, 7}
DecodeLengths == {0, 4, 5, 14, 22, 23, 64}
DecodeIds == {<<1, 2, 3, 4, 5, 6>>, <<6, 5, 4, 3, 2, 1>>}
DecodePositions == {<<p1, 1500, 255, 256, 2600, p6>> :
                        p1 \in {0, 65535}, p6 \in {0, 1, 65535}}
DecodeReplies ==
    {truncated(<<85, 85, 21, 21, c>> \o idGroups(ids, ps, 1), n) :
        c \in DecodeCounts, ids \in DecodeIds, ps \in DecodePositions,
        n \in DecodeLengths}

DecodeBatReplies ==
    {truncated(<<85, 85, 4, 15, lo, hi, 0>>, n) :
        lo \in {0, 1, 136, 255}, hi \in {0, 1, 28, 255}, n \in 0..7}

DecodeReadPos ==
    \E reply \in DecodeReplies, q \in Quotas :
        Call(MaxProbe, "read_pos", PyNone, PyNone, <<>>, 0, 0, q,
             read_pos(Machine(servoinfo, q, reply)))

DecodeGetBattery ==
    \E reply \in DecodeBatReplies, q \in Quotas :
        Call(MaxProbe, "getBattery", PyNone, PyNone, <<>>, 0, 0, q,
             getBattery(Machine(servoinfo, q, reply)))

NextDecode ==
    \/ DecodeReadPos
    \/ DecodeGetBattery

SpecDecode == Init /\ [][NextDecode]_vars

----------------------------------------------------------------------------
(* Single-call specification of the position argument of moveTo: every     *)
(* form of servo reference with every form of position token.              *)

TokenPositions ==
    {PyStr(tok) : tok \in Landmarks}
    \cup {PyStr(<<"1", "5", "0", "0">>), PyStr(<<"0">>), PyStr(<<"9", "9", "9", "9", "9">>),
          PyStr(<<>>), PyStr(<<"\n">>), PyStr(<<"a", "b", "c">>),
          PyStr(<<"-", "5">>), PyStr(<<"1", "2", "a">>), PyStr(<<"M", "i", "d">>),
          PyStr(<<"1", ".", "5">>), PyInt(1500)}

TokenRefs == {PyInt(n) : n \in 1..7} \cup {PyStr(sn[i]) : i \in 0..5}
             \cup {PyStr(<<"4">>), PyStr(<<"b", "o", "g", "u", "s">>)}

TokenMoveTo == MoveToCall(MaxProbe, TokenRefs, TokenPositions, Times, Quotas)

NextToken == TokenMoveTo

SpecToken == Init /\ [][NextToken]_vars

----------------------------------------------------------------------------
(* Vocabulary of the properties *)

\* the servo id (1..6) a reference denotes under the addressing rules: an
\* integer or a non-empty string of decimal digits is an id, any other
\* string is a name; 0 when it denotes no servo
Denoted(ref) ==
    IF ref.kind = "int" THEN (IF ref.n \in 1..6 THEN ref.n ELSE 0)
    ELSE IF ref.kind = "str"
    THEN IF ref.s # <<>> /\ AllDigits(ref.s)
         THEN (IF digitsValue(ref.s) \in 1..6 THEN digitsValue(ref.s) ELSE 0)
         ELSE IF \E n \in 1..6 : servoinfo0[n - 1].name = ref.s
              THEN CHOOSE n \in 1..6 : servoinfo0[n - 1].name = ref.s
              ELSE 0
    ELSE 0

\* the calibrated descriptor of servo id n
Desc(n) == servoinfo0[n - 1]

\* indexes of the Move packets among the transport events of the call
MoveWrites == {i \in 1..Len(log) : log[i].ev = "write" /\ log[i].data[4] = 3}

PacketId(d) == d[8]
PacketPos(d) == d[9] + 256 * d[10]
PacketTime(d) == d[6] + 256 * d[7]

Known(si, n) == si[n - 1].pos >= 0

----------------------------------------------------------------------------
\* C1: every Move packet written by any call (moveTo, moveRel, move_all,
\* rest, whatever positions and deltas were requested) names a servo id in
\* 1..6 and carries a position within [min, max] of that servo.
C1_MovePacketInRange ==
    \A i \in MoveWrites :
        LET d == log[i].data IN
        /\ PacketId(d) \in 1..6
        /\ Desc(PacketId(d)).min <= PacketPos(d)
        /\ PacketPos(d) <= Desc(PacketId(d)).max

\* a relative move past the upper bound was clipped and sent
C1_Witness ==
    /\ last.op = "moveRel"
    /\ last.exc = "none"
    /\ Denoted(last.id) # 0
    /\ Known(prev, Denoted(last.id))
    /\ prev[Denoted(last.id) - 1].pos + last.dpos > Desc(Denoted(last.id)).max
    /\ MoveWrites # {}

\* C2: moveTo with a valid servo reference and an integer position p
\* returns normally (given the transport accepts the write) and leaves the
\* servo's tracked position within [min, max]: p when in range, min when
\* p < min, max when p > max.
C2_MoveToClips ==
    (last.op = "moveTo" /\ Denoted(last.id) # 0 /\ last.pos.kind = "int"
        /\ last.quota > 0)
    => LET d == servoinfo[Denoted(last.id) - 1]
           p == last.pos.n
       IN  /\ last.exc = "none"
           /\ Desc(d.id).min <= d.pos /\ d.pos <= Desc(d.id).max
           /\ (p < Desc(d.id).min => d.pos = Desc(d.id).min)
           /\ (p > Desc(d.id).max => d.pos = Desc(d.id).max)
           /\ (Desc(d.id).min <= p /\ p <= Desc(d.id).max => d.pos = p)

\* a moveTo below the range of a servo that was already Known
C2_Witness ==
    /\ last.op = "moveTo"
    /\ last.exc = "none"
    /\ Denoted(last.id) # 0
    /\ last.pos = PyInt(0)
    /\ Known(prev, Denoted(last.id))
    /\ servoinfo[Denoted(last.id) - 1].pos = Desc(Denoted(last.id)).min

\* a moveRel call that addressed a servo which was Unknown when it started
MoveRelFromUnknown ==
    /\ last.op = "moveRel"
    /\ Denoted(last.id) # 0
    /\ ~Known(prev, Denoted(last.id))

C4_UnknownMoveRelNoEffect ==
    MoveRelFromUnknown
    => (servoinfo = prev /\ log = <<>> /\ ~Known(servoinfo, Denoted(last.id)))

\* an Unknown servo addressed, with a working transport, while another
\* servo is Known
C4_Witness ==
    /\ MoveRelFromUnknown
    /\ last.quota > 0
    /\ last.dpos = 3000
    /\ \E n \in 1..6 : Known(servoinfo, n)

\* C5: after an unclipped moveRel(+d) of a Known servo at p, followed at
\* once by moveRel(-d) of the same servo, the tracked position is p again.
C5_RoundTrip ==
    trip.n = 2 => servoinfo[trip.s].pos = trip.p

\* both legs done with a non-zero delta, the first leg having moved away
C5_Witness ==
    /\ trip.n = 2
    /\ trip.d # 0
    /\ last.op = "moveRel"
    /\ prev[trip.s].pos = trip.p - trip.d
    /\ prev[trip.s].pos # trip.p

\* first-class calls that resolve a servo reference
Resolving == {"servoInfo", "moveTo", "moveRel"}

\* C6: a reference that denotes servo n - the integer n, a decimal string
\* for n, or the name of servo n - resolves to the one descriptor whose id
\* is n: servoInfo returns exactly that descriptor, and moveTo addresses its
\* packet to n and touches no other entry of the table.
C6_ResolutionConsistent ==
    (last.op \in Resolving /\ Denoted(last.id) # 0)
    => LET n == Denoted(last.id) IN
       /\ last.exc = "none"
       /\ last.op = "servoInfo"
            => (Len(ret) = 1 /\ ret[1] = servoinfo[n - 1] /\ ret[1].id = n
                /\ ret[1].name = Desc(n).name)
       /\ last.op = "moveTo"
            => (/\ MoveWrites = {1}
                /\ PacketId(log[1].data) = n
                /\ Known(servoinfo, n)
                /\ \A k \in 1..6 : k # n => servoinfo[k - 1] = prev[k - 1])

\* servo 3 reached through its name
C6_Witness ==
    /\ last.op = "servoInfo"
    /\ last.id = PyStr(Desc(3).name)
    /\ last.exc = "none"
    /\ ret[1].id = 3

\* C7 as claimed: a reference that denotes no servo (id out of 1..6,
\* unknown name, empty string) ends the call with the recoverable error
\* InvalidServoReference and in no other way.
C7_Claimed ==
    (last.op \in Resolving /\ Denoted(last.id) = 0)
    => last.exc = "InvalidServoReference"

\* the position p clipped to servo n's calibrated range
Nearest(n, p) ==
    IF p < Desc(n).min THEN Desc(n).min
    ELSE IF p > Desc(n).max THEN Desc(n).max
    ELSE p

IsByte(b) == b \in 0..255

\* C8: moveTo(id, pos, T) with id in 1..6 and T in 0..65535 performs one
\* transport event, the write of the 10 bytes 55 55 08 03 01 T_lo T_hi ID
\* P_lo P_hi, every byte in 0..255, (T_lo, T_hi) and (P_lo, P_hi) the
\* little-endian bytes of T and of the clipped position; for id 4, pos
\* 2600, T 500 the bytes are 55 55 08 03 01 F4 01 04 28 0A.
C8_MovePacketBytes ==
    (last.op = "moveTo" /\ last.id.kind = "int" /\ last.id.n \in 1..6
        /\ last.pos.kind = "int" /\ last.time \in 0..65535 /\ last.quota > 0)
    => /\ Len(log) = 1
       /\ log[1].ev = "write"
       /\ LET d == log[1].data IN
          /\ Len(d) = 10
          /\ \A k \in 1..10 : IsByte(d[k])
          /\ SubSeq(d, 1, 5) = <<85, 85, 8, 3, 1>>
          /\ d[6] + 256 * d[7] = last.time
          /\ d[8] = last.id.n
          /\ d[9] + 256 * d[10] = Nearest(last.id.n, last.pos.n)
          /\ (last.id.n = 4 /\ last.pos.n = 2600 /\ last.time = 500)
                => d = <<85, 85, 8, 3, 1, 244, 1, 4, 40, 10>>

\* the instance moveTo(4, 2600, 500)
C8_Witness ==
    /\ last.op = "moveTo"
    /\ last.id = PyInt(4)
    /\ last.pos = PyInt(2600)
    /\ last.time = 500
    /\ log = <<[ev |-> "write", data |-> <<85, 85, 8, 3, 1, 244, 1, 4, 40, 10>>]>>

\* C9: rest() (given the transport accepts its writes) performs exactly
\* seven transport events, all writes: Move packets for servos 1, 2, 3, 4,
\* 5, 6 in that order, each with the servo's mid value, then the PowerOff
\* packet 55 55 09 14 06 01 02 03 04 05 06; it reads nothing.
C9_RestSequence ==
    (last.op = "rest" /\ last.quota >= 7)
    => /\ last.exc = "none"
       /\ Len(log) = 7
       /\ \A i \in 1..7 : log[i].ev = "write"
       /\ \A i \in 1..6 :
            /\ i \in MoveWrites
            /\ Len(log[i].data) = 10
            /\ PacketId(log[i].data) = i
            /\ PacketPos(log[i].data) = Desc(i).mid
       /\ log[7].data = <<85, 85, 9, 20, 6, 1, 2, 3, 4, 5, 6>>

\* rest() of an arm whose servos were not all at mid
C9_Witness ==
    /\ last.op = "rest"
    /\ last.exc = "none"
    /\ \E n \in 1..6 : Known(prev, n) /\ prev[n - 1].pos # Desc(n).mid
    /\ Len(log) = 7

\* C10: move_all(positions, duration) with six integer positions (given
\* the transport accepts its writes) performs exactly six transport
\* events, the writes of Move packets with ids 1, 2, 3, 4, 5, 6 in that
\* order, the i-th carrying positions[i] clipped to servo i's range and the
\* duration; afterwards every servo is Known with that clipped value.
C10_MoveAllAscending ==
    (last.op = "move_all" /\ last.quota >= 6
        /\ \A i \in 1..6 : last.poss[i].kind = "int")
    => /\ last.exc = "none"
       /\ Len(log) = 6
       /\ \A i \in 1..6 :
            /\ log[i].ev = "write"
            /\ i \in MoveWrites
            /\ PacketId(log[i].data) = i
            /\ PacketPos(log[i].data) = Nearest(i, last.poss[i].n)
            /\ PacketTime(log[i].data) = last.time
            /\ Known(servoinfo, i)
            /\ servoinfo[i - 1].pos = Nearest(i, last.poss[i].n)

\* move_all with positions below, inside and above the ranges
C10_Witness ==
    /\ last.op = "move_all"
    /\ last.exc = "none"
    /\ last.poss[1] = PyInt(0)
    /\ last.poss[2] = PyInt(65535)
    /\ servoinfo[0].pos = 1310
    /\ servoinfo[1].pos = 2600
    /\ servoinfo[5].pos = 1234

\* a read call that got as far as reading its reply
ReadDone(op) ==
    /\ last.op = op
    /\ Len(log) = 2
    /\ log[2].ev = "read"

\* the reply the call read
Reply == log[2].data

\* a ReadPositions reply that cannot be decoded: too short for six groups
\* after the count, or with a count other than 6
Malformed(r) == Len(r) < 5 + 3 * 6 \/ r[5] # 6

\* the position of the i-th group of a reply
GroupPos(r, i) == r[5 + 3 * (i - 1) + 2] + 256 * r[5 + 3 * (i - 1) + 3]
GroupId(r, i) == r[5 + 3 * (i - 1) + 1]

\* C11 as claimed: read_pos on a malformed reply (count byte not 6, or too
\* short for six groups, or too short for the count byte) ends with the
\* recoverable error MalformedResponse, returns no positions and fails in
\* no other way.
C11_Claimed ==
    (ReadDone("read_pos") /\ Malformed(Reply))
    => (last.exc = "MalformedResponse" /\ ret = <<>>)

\* the integers of a list of (id, position) pairs, in order
RECURSIVE pairsOf(_, _)
pairsOf(r, i) ==
    IF i > 6 THEN <<>> ELSE <<GroupId(r, i), GroupPos(r, i)>> \o pairsOf(r, i + 1)

\* a reply with count 6 and six groups whose ids are 1..6 in order
WellFormed(r) ==
    /\ ~Malformed(r)
    /\ \A i \in 1..6 : GroupId(r, i) = i

\* C12 as claimed: for a well-formed reply read_pos returns the six pairs
\* (1, p1) ... (6, p6), p_i = P_lo + 256 * P_hi, with the id of each group.
C12_Claimed ==
    (ReadDone("read_pos") /\ WellFormed(Reply))
    => (last.exc = "none" /\ ret = pairsOf(Reply, 1))

\* C12 as the code has it: for a reply with count 6 and six groups read_pos
\* returns the list of the six positions p1 ... p6 in group order, p_i =
\* P_lo + 256 * P_hi; the id byte of a group is not part of the result
\* (and has no influence on it).
C12_ReturnsPositions ==
    (ReadDone("read_pos") /\ ~Malformed(Reply))
    => /\ last.exc = "none"
       /\ Len(ret) = 6
       /\ \A i \in 1..6 : ret[i] = GroupPos(Reply, i) /\ ret[i] \in 0..65535

\* a well-formed reply with positions at both ends of the 16-bit range
C12_Witness ==
    /\ ReadDone("read_pos")
    /\ WellFormed(Reply)
    /\ ret = <<65535, 1500, 255, 256, 2600, 1>>

\* C13: getBattery never raises because of its reply: for a reply of length
\* 0..5 it returns the sentinel -1, for a reply of length 6 or more the
\* 16-bit value with low byte reply[4] and high byte reply[5] (Python
\* indexes), on a host that stores integers low byte first.
C13_BatteryDegrades ==
    ReadDone("getBattery")
    => /\ last.exc = "none"
       /\ Len(ret) = 1
       /\ Len(Reply) < 6 => ret[1] = -1
       /\ Len(Reply) >= 6
            => (ret[1] % 256 = Reply[5] /\ ret[1] \div 256 = Reply[6]
                /\ ret[1] \in 0..65535)

\* a reply one byte short of the voltage field
C13_Witness ==
    /\ ReadDone("getBattery")
    /\ Len(Reply) = 5
    /\ Reply[5] = 136
    /\ ret = <<-1>>

\* operations that are not moves
NonMoves == {"servos_off", "read_pos", "getBattery"}

\* C14: servos_off, read_pos and getBattery leave every entry of the table
\* as it was when the call started, whatever the transport replies and
\* however the call ends, so the reference of a later moveRel is the same.
C14_NonMovesKeepState ==
    last.op \in NonMoves => servoinfo = prev

\* a position report read while a servo is tracked at another position
C14_Witness ==
    /\ last.op = "read_pos"
    /\ last.exc = "none"
    /\ \E n \in 1..6 : Known(servoinfo, n) /\ servoinfo[n - 1].pos # ret[n]

Writes == {i \in 1..Len(log) : log[i].ev = "write"}
Reads == {i \in 1..Len(log) : log[i].ev = "read"}

\* a position argument moveTo accepts: an integer, a landmark, or a
\* non-empty string of decimal digits
GoodPosition(pos) ==
    \/ pos.kind = "int"
    \/ pos.kind = "str" /\ (pos.s \in Landmarks \/ (pos.s # <<>> /\ AllDigits(pos.s)))

\* C15: a non-composite call performs at most one write, and a read only
\* after its write. Given the transport accepts the write: moveTo, and
\* moveRel of a Known servo, perform exactly one event, the write of a Move
\* packet (also when the clipped position equals the tracked one);
\* servos_off exactly one, the write of the PowerOff packet; read_pos and
\* getBattery exactly two, the write of the request then one read, whatever
\* the reply.
C15_OneWriteOneRead ==
    /\ last.op \in {"moveTo", "moveRel", "servos_off", "read_pos", "getBattery"}
         => (Cardinality(Writes) <= 1 /\ \A i \in Reads : i = 2 /\ 1 \in Writes)
    /\ last.quota > 0 =>
        /\ (last.op = "moveTo" /\ Denoted(last.id) # 0 /\ GoodPosition(last.pos))
             => (Len(log) = 1 /\ MoveWrites = {1})
        /\ (last.op = "moveRel" /\ Denoted(last.id) # 0
                /\ Known(prev, Denoted(last.id)))
             => (Len(log) = 1 /\ MoveWrites = {1})
        /\ last.op = "servos_off"
             => log = <<[ev |-> "write", data |-> <<85, 85, 9, 20, 6, 1, 2, 3, 4, 5, 6>>]>>
        /\ last.op = "read_pos"
             => (Len(log) = 2 /\ Reads = {2}
                 /\ log[1] = [ev |-> "write", data |-> <<85, 85, 9, 21, 6, 1, 2, 3, 4, 5, 6>>])
        /\ last.op = "getBattery"
             => (Len(log) = 2 /\ Reads = {2}
                 /\ log[1] = [ev |-> "write", data |-> <<85, 85, 2, 15>>])

\* a moveRel that clipping left where the servo already was
C15_Witness ==
    /\ last.op = "moveRel"
    /\ last.exc = "none"
    /\ Denoted(last.id) # 0
    /\ last.dpos = 3000
    /\ Known(prev, Denoted(last.id))
    /\ servoinfo = prev
    /\ Len(log) = 1

\* C16 as claimed: right after the construction of a driver every one of
\* its six servos is Unknown, also when another driver of the same process
\* has issued moves before.
C16_Claimed ==
    (last.op = "__init__" /\ last.exc = "none")
    => \A n \in 1..6 : ~Known(servoinfo, n)

\* a string position that is neither a landmark nor a decimal integer
InvalidToken(pos) == pos.kind = "str" /\ ~GoodPosition(pos)

\* C17 as claimed: moveTo with an invalid position token ends with the
\* recoverable error InvalidPositionValue - or InvalidServoReference when
\* the servo reference is invalid too - writes no packet and changes no
\* tracked position.
C17_Claimed ==
    (last.op = "moveTo" /\ InvalidToken(last.pos))
    => /\ last.exc = IF Denoted(last.id) = 0 THEN "InvalidServoReference"
                     ELSE "InvalidPositionValue"
       /\ log = <<>>
       /\ servoinfo = prev

\* the moveTo addressed to servo n during the call wrote its packet
MovedTo(n) ==
    /\ last.op \in {"moveTo", "move_all", "rest"}
    /\ \E i \in MoveWrites : PacketId(log[i].data) = n

\* C18 as claimed: over any call, a servo that was Known stays Known, and
\* a servo that was Unknown becomes Known only through a moveTo addressed
\* to it (directly, or within move_all or rest) that succeeded.
C18_Claimed ==
    \A n \in 1..6 :
        /\ Known(prev, n) => Known(servoinfo, n)
        /\ (~Known(prev, n) /\ Known(servoinfo, n)) => MovedTo(n)

\* C19 as claimed: a moveTo or moveRel that ends in an error (invalid
\* reference, invalid position, transport write failure) leaves every
\* tracked position as it was before the call.
C19_Claimed ==
    (last.op \in {"moveTo", "moveRel"} /\ last.exc # "none")
    => servoinfo = prev

\* C20: in every reachable state the table has its six entries, entry i
\* with id i + 1, its name from sn (all distinct) and its constructed min,
\* mid and max, min <= mid <= max; clipping a landmark gives the landmark;
\* only 'pos' differs from the constructed table.
C20_CalibrationImmutable ==
    /\ DOMAIN servoinfo = 0..5
    /\ \A i \in 0..5 :
        /\ servoinfo[i].id = i + 1
        /\ servoinfo[i].name = sn[i]
        /\ [servoinfo[i] EXCEPT !.pos = -1] = servoinfo0[i]
        /\ servoinfo[i].min <= servoinfo[i].mid
        /\ servoinfo[i].mid <= servoinfo[i].max
        /\ \A v \in {servoinfo[i].min, servoinfo[i].mid, servoinfo[i].max} :
             clipPos(servoinfo[i], v) = v
        /\ \A j \in 0..5 : servoinfo[i].name = servoinfo[j].name => i = j

\* a moveTo to a landmark of a servo that was tracked elsewhere
C20_Witness ==
    /\ last.op = "moveTo"
    /\ last.exc = "none"
    /\ last.pos = PyStr(mid)
    /\ Denoted(last.id) # 0
    /\ Known(prev, Denoted(last.id))
    /\ prev[Denoted(last.id) - 1].pos # servoinfo[Denoted(last.id) - 1].pos
    /\ servoinfo[Denoted(last.id) - 1].pos = servoinfo0[Denoted(last.id) - 1].mid

====
